---------------------------- MODULE Spec2Model ----------------------------
(***************************************************************************)
(* A model of the translation service: app.py (the Flask handlers and the  *)
(* model-bundle extraction thread) and translation.py (the lexicons, the   *)
(* word replacers and translate_input).                                    *)
(*                                                                         *)
(* A Python str is a sequence of one-character strings.  The alphabet is   *)
(* "a" and "b" (lower-case letters), "B" (the upper case of "b"), "'" (a   *)
(* punctuation character: neither \w nor \s) and " " (whitespace).         *)
(* The output of a translation model is not interpreted: the output of the *)
(* model m on the text t is the text t behind a marker naming m.           *)
(***************************************************************************)
EXTENDS Integers, Sequences, FiniteSets, TLC

VARIABLES
    models_ready,        \* app.py global
    extraction_error,    \* app.py global: None or str(e)
    download_progress,   \* app.py global
    epc,                 \* position of the extraction thread
    efs,                 \* the thread's locals and the model directory on disk
    df,                  \* translation.py global: the rows of "data (1).csv"
    module,              \* whether translation.py is in sys.modules
    french_to_shimarore, \* translation.py global
    shimarore_to_french, \* translation.py global
    pc,                  \* position of the /translate handler
    body,                \* the request body being handled
    imported,            \* how line 274 went for this request
    sentence,            \* translate_text's local
    result,              \* translate_input's local
    local,               \* translate_input's other locals
    calls,               \* the capabilities invoked for this request, in order
    response,            \* what the caller receives
    sub,                 \* the substitution harness: text, outputs
    reader,              \* the index / status handler: position, what it read
    other                \* a second, concurrent call of translate_input

vars == <<models_ready, extraction_error, download_progress, epc, efs, df,
          module, french_to_shimarore, shimarore_to_french, pc, body,
          imported, sentence, result, local, calls, response, sub,
          reader, other>>

appVars == <<models_ready, extraction_error, download_progress, epc, efs>>
lexVars == <<df, module, french_to_shimarore, shimarore_to_french>>
reqVars == <<pc, body, imported, sentence, result, local, calls, response>>

---------------------------------------------------------------------------
(* Bounds *)

\* longest short request sentence, in characters
MaxLen == 4
\* most rows of the dataset the service loads
MaxRows == 1
\* most rows of the dataset when the lexicons are loaded on their own
MaxLexRows == 2
\* most rows of the dataset the word replacers are run on
MaxSubRows == 2
\* longest text given to a word replacer on its own, in characters
MaxSubLen == 3
\* longest sentence of two concurrent requests, in characters
MaxPairLen == 3
\* most rows of the dataset two concurrent requests are run on
MaxPairRows == 1
\* chunks of the bundle download
NumChunks == 2
\* files in the bundle
NumFiles == 2

\* app.py:289
MaxSentenceLen == 1000

---------------------------------------------------------------------------
(* Python values *)

None == "None"
\* None where a str is expected: no character is "None"
NoStr == <<"None">>

SentenceChar == {"a", "B", "'", " "}

IsSpace(c) == c = " "
IsWord(c) == c \in {"a", "b", "B"}
LowerChar(c) == IF c = "B" THEN "b" ELSE c

\* str.lower()
Lower(s) == [i \in 1..Len(s) |-> LowerChar(s[i])]

RECURSIVE LStrip(_)
LStrip(s) == IF s # <<>> /\ IsSpace(s[1]) THEN LStrip(Tail(s)) ELSE s

RECURSIVE RStrip(_)
RStrip(s) ==
    IF s # <<>> /\ IsSpace(s[Len(s)]) THEN RStrip(SubSeq(s, 1, Len(s) - 1)) ELSE s

\* str.strip()
Strip(s) == RStrip(LStrip(s))

\* index of the first whitespace character of s, Len(s) + 1 when there is none
FirstSpace(s) ==
    LET sp == {i \in 1..Len(s) : IsSpace(s[i])}
    IN  IF sp = {} THEN Len(s) + 1 ELSE CHOOSE i \in sp : \A j \in sp : i <= j

\* str.split()
RECURSIVE Split(_)
Split(s) ==
    LET t == LStrip(s)
    IN  IF t = <<>> THEN <<>>
        ELSE LET k == FirstSpace(t)
             IN  <<SubSeq(t, 1, k - 1)>> \o Split(SubSeq(t, k, Len(t)))

\* ' '.join(words)
RECURSIVE Join(_)
Join(words) ==
    IF words = <<>> THEN <<>>
    ELSE IF Len(words) = 1 THEN words[1]
    ELSE words[1] \o <<" ">> \o Join(Tail(words))

\* all strings over chars of length lo..hi
StringsOf(chars, lo, hi) == UNION {[1..n -> chars] : n \in lo..hi}

\* c repeated n times
Rep(c, n) == [i \in 1..n |-> c]

---------------------------------------------------------------------------
(* translation.py: the dataset and the two lexicons *)

\* a dict: a function from its keys
EmptyDict == <<>>

\* a variant that keeps the value a key already has
DictPut_keep(d, k, v) ==
    IF k \in DOMAIN d THEN d ELSE [x \in (DOMAIN d) \cup {k} |-> IF x = k THEN v ELSE d[x]]

DictPut(d, k, v) == [x \in (DOMAIN d) \cup {k} |-> IF x = k THEN v ELSE d[x]]

\* dict(zip(ks, vs)): the pairs are inserted in order
RECURSIVE DictZip(_, _)
DictZip(ks, vs) ==
    IF ks = <<>> \/ vs = <<>> THEN EmptyDict
    ELSE LET n == IF Len(ks) <= Len(vs) THEN Len(ks) ELSE Len(vs)
         IN  DictPut(DictZip(SubSeq(ks, 1, n - 1), SubSeq(vs, 1, n - 1)),
                     ks[n], vs[n])

\* df['text'].str.lower(), df['target'].str.lower()
ColumnLower(rows, col) == [i \in 1..Len(rows) |-> Lower(rows[i][col])]

build_french_to_shimarore(rows) ==
    DictZip(ColumnLower(rows, "text"), ColumnLower(rows, "target"))

build_shimarore_to_french(rows) ==
    DictZip(ColumnLower(rows, "target"), ColumnLower(rows, "text"))

\* the terms a dataset row is made of
Terms == {<<"a">>, <<"b">>, <<"a", "'">>}
\* the same when the lexicons are loaded on their own: case, punctuation,
\* two words
LexTerms == {<<"b">>, <<"B">>, <<"a", "'">>, <<"a", " ", "b">>}
\* the same for the word replacers
SubTerms == {<<"b">>, <<"a", "'">>, <<"a", " ", "b">>}

DatasetsOf(terms, n) ==
    UNION {[1..k -> [text : terms, target : terms]] : k \in 0..n}

---------------------------------------------------------------------------
(* translation.py: the word replacers *)

\* a variant of the loop that stops after its first replacement
ReplaceWords_first(words, dict) ==
    [i \in 1..Len(words) |->
        IF /\ words[i] \in DOMAIN dict
           /\ \A j \in 1..(i - 1) : words[j] \notin DOMAIN dict
        THEN dict[words[i]] ELSE words[i]]

\* the loop of lines 22-25 over every word
ReplaceWords(words, dict) ==
    [i \in 1..Len(words) |->
        IF words[i] \in DOMAIN dict THEN dict[words[i]] ELSE words[i]]

AnyReplaced(words, dict) == \E i \in 1..Len(words) : words[i] \in DOMAIN dict

\* a variant that matches the words without their punctuation
Replace_bare(text, dict) ==
    LET words == Split(SelectSeq(Lower(text), LAMBDA c : IsWord(c) \/ IsSpace(c)))
    IN  <<Join(ReplaceWords(words, dict)), AnyReplaced(words, dict)>>

Replace(text, dict) ==
    LET words == Split(Lower(text))
    IN  <<Join(ReplaceWords(words, dict)), AnyReplaced(words, dict)>>

replace_french_with_shimarore(text) == Replace(text, french_to_shimarore)

replace_shimarore_with_french(text) == Replace(text, shimarore_to_french)

\* re.sub(r"[^\w\s]", "", text.lower())
clean_text(text) == SelectSeq(Lower(text), LAMBDA c : IsWord(c) \/ IsSpace(c))

---------------------------------------------------------------------------
(* app.py: the extraction thread (extract_models, started by __main__) *)

\* the percentage of lines 118 and 196
Percent(done, total) == (done * 100) \div total

\* the messages of the exceptions extract_models can catch
DownloadFailed == "Failed to download model bundle from Google Drive"
ModelDirMissing == "Model directory not found after extraction"
OsError == "OSError"
BadZip == "BadZipFile"

\* lines 162-171: the models directory, then whether the model is there
extract_begin ==
    /\ epc = "begin"
    /\ \/ /\ efs.model_path
          /\ epc' = "set_ready"
       \/ /\ ~efs.model_path
          /\ epc' = "download"
       \/ /\ epc' = "except"          \* os.makedirs raises
          /\ efs' = [efs EXCEPT !.error = OsError]
    /\ UNCHANGED <<models_ready, extraction_error, download_progress>>
    /\ (epc' # "except" => UNCHANGED efs)
    /\ UNCHANGED <<lexVars, reqVars, sub, reader, other>>

\* download_google_drive_file, lines 38-107: the requests, then progress = 0;
\* a failure is caught at lines 150-157
download_begin ==
    /\ epc = "download"
    /\ \/ /\ \E known \in BOOLEAN :
                efs' = [efs EXCEPT !.total_known = known, !.chunk = 0]
          /\ epc' = "chunks"
       \/ /\ epc' = "download_false"
          /\ UNCHANGED efs
    /\ download_progress' = 0
    /\ UNCHANGED <<models_ready, extraction_error>>
    /\ UNCHANGED <<lexVars, reqVars, sub, reader, other>>

\* lines 112-129: one chunk written; a failure is caught at lines 150-157
download_chunk ==
    /\ epc = "chunks"
    /\ efs.chunk < NumChunks
    /\ \/ /\ efs' = [efs EXCEPT !.chunk = @ + 1]
          /\ download_progress' =
                IF efs.total_known THEN Percent(efs.chunk + 1, NumChunks)
                ELSE download_progress
          /\ epc' = "chunks"
       \/ /\ download_progress' = 0
          /\ epc' = "download_false"
          /\ efs' = [efs EXCEPT !.total_known = FALSE, !.chunk = 0]
    /\ UNCHANGED <<models_ready, extraction_error>>
    /\ UNCHANGED <<lexVars, reqVars, sub, reader, other>>

\* lines 131-148: the size check returns False and leaves the progress as it
\* is; otherwise progress = 100 and True
download_end ==
    /\ epc = "chunks"
    /\ efs.chunk = NumChunks
    /\ \/ /\ epc' = "download_false"
          /\ UNCHANGED download_progress
       \/ /\ download_progress' = 100
          /\ epc' = "extract"
    /\ efs' = [efs EXCEPT !.total_known = FALSE, !.chunk = 0]
    /\ UNCHANGED <<models_ready, extraction_error>>
    /\ UNCHANGED <<lexVars, reqVars, sub, reader, other>>

\* a variant that starts the download again when it returned False
download_failed_retry ==
    /\ epc = "download_false"
    /\ epc' = "download"
    /\ UNCHANGED efs
    /\ UNCHANGED <<models_ready, extraction_error, download_progress>>
    /\ UNCHANGED <<lexVars, reqVars, sub, reader, other>>

\* lines 179-180: the download returned False
download_failed ==
    /\ epc = "download_false"
    /\ epc' = "except"
    /\ efs' = [efs EXCEPT !.error = DownloadFailed]
    /\ UNCHANGED <<models_ready, extraction_error, download_progress>>
    /\ UNCHANGED <<lexVars, reqVars, sub, reader, other>>

\* lines 183-188: progress reset, the bundle opened
extraction_begin ==
    /\ epc = "extract"
    /\ download_progress' = 0
    /\ \/ /\ epc' = "files"
          /\ efs' = [efs EXCEPT !.file = 0]
       \/ /\ epc' = "except"          \* zipfile.ZipFile raises
          /\ efs' = [efs EXCEPT !.error = BadZip]
    /\ UNCHANGED <<models_ready, extraction_error>>
    /\ UNCHANGED <<lexVars, reqVars, sub, reader, other>>

\* lines 192-197: one file extracted
extract_file ==
    /\ epc = "files"
    /\ efs.file < NumFiles
    /\ \/ /\ efs' = [efs EXCEPT !.file = @ + 1]
          /\ download_progress' = Percent(efs.file + 1, NumFiles)
          /\ epc' = "files"
       \/ /\ epc' = "except"          \* zip_ref.extract raises
          /\ efs' = [efs EXCEPT !.error = OsError, !.file = 0]
          /\ UNCHANGED download_progress
    /\ UNCHANGED <<models_ready, extraction_error>>
    /\ UNCHANGED <<lexVars, reqVars, sub, reader, other>>

\* lines 204-213: clean up, then the model directory must be there
extraction_verify ==
    /\ epc = "files"
    /\ efs.file = NumFiles
    /\ \/ /\ epc' = "set_ready"
          /\ efs' = [efs EXCEPT !.model_path = TRUE, !.file = 0]
       \/ /\ epc' = "except"
          /\ efs' = [efs EXCEPT !.error = ModelDirMissing, !.file = 0]
    /\ UNCHANGED <<models_ready, extraction_error, download_progress>>
    /\ UNCHANGED <<lexVars, reqVars, sub, reader, other>>

\* line 217
set_models_ready ==
    /\ epc = "set_ready"
    /\ models_ready' = TRUE
    /\ epc' = "set_progress"
    /\ UNCHANGED <<extraction_error, download_progress, efs>>
    /\ UNCHANGED <<lexVars, reqVars, sub, reader, other>>

\* line 218
set_progress_done ==
    /\ epc = "set_progress"
    /\ download_progress' = 100
    /\ epc' = "done"
    /\ UNCHANGED <<models_ready, extraction_error, efs>>
    /\ UNCHANGED <<lexVars, reqVars, sub, reader, other>>

\* line 222
set_extraction_error ==
    /\ epc = "except"
    /\ extraction_error' = efs.error
    /\ epc' = "reset_progress"
    /\ UNCHANGED <<models_ready, download_progress, efs>>
    /\ UNCHANGED <<lexVars, reqVars, sub, reader, other>>

\* line 223
reset_progress ==
    /\ epc = "reset_progress"
    /\ download_progress' = 0
    /\ epc' = "failed"
    /\ UNCHANGED <<models_ready, extraction_error, efs>>
    /\ UNCHANGED <<lexVars, reqVars, sub, reader, other>>

extract_models ==
    \/ extract_begin
    \/ download_begin
    \/ download_chunk
    \/ download_end
    \/ download_failed
    \/ extraction_begin
    \/ extract_file
    \/ extraction_verify
    \/ set_models_ready
    \/ set_progress_done
    \/ set_extraction_error
    \/ reset_progress

---------------------------------------------------------------------------
(* app.py: the body of a /translate request, as request.get_json() sees it *)

JNull == [t |-> "null"]
JBool(b) == [t |-> "bool", v |-> b]
JNum(n) == [t |-> "num", v |-> n]
JStr(s) == [t |-> "str", v |-> s]
\* a list of n items
JList(n) == [t |-> "list", n |-> n]
\* an object: its "sentence" member (Absent when it has none) and the number
\* of its other members
Absent == [t |-> "absent"]
JDict(sent, others) == [t |-> "dict", sentence |-> sent, others |-> others]

\* Python's truth value of a parsed JSON value
Truthy(v) ==
    CASE v.t = "null" -> FALSE
      [] v.t = "bool" -> v.v
      [] v.t = "num" -> v.v # 0
      [] v.t = "str" -> v.v # <<>>
      [] v.t = "list" -> v.n > 0
      [] v.t = "dict" -> v.sentence # Absent \/ v.others > 0

\* data.get("sentence")
DictGet(d) == IF d.sentence = Absent THEN JNull ELSE d.sentence

\* sentences around the length limit: the limit itself and one more, with and
\* without surrounding whitespace
LongSentences ==
    {pre \o Rep("a", n) \o post :
        pre \in {<<>>, <<" ">>}, post \in {<<>>, <<" ">>},
        n \in {MaxSentenceLen, MaxSentenceLen + 1}}

Sentences == StringsOf(SentenceChar, 0, MaxLen) \cup LongSentences

NonStrings ==
    {JNull, JBool(FALSE), JBool(TRUE), JNum(0), JNum(7), JList(0), JList(1)}

\* "error": get_json raises (the body is not JSON)
Bodies ==
    {[parse |-> "error"]}
    \cup {[parse |-> "ok", data |-> v] :
            v \in NonStrings \cup {JStr(<<>>), JStr(<<"a">>)}}
    \cup {[parse |-> "ok", data |-> JDict(Absent, n)] : n \in {0, 1}}
    \cup {[parse |-> "ok", data |-> JDict(v, 0)] : v \in NonStrings}
    \cup {[parse |-> "ok", data |-> JDict(JStr(s), 0)] : s \in Sentences}

NoBody == [parse |-> "none"]
NoResponse == [code |-> 0]
Error(code, message) == [code |-> code, json |-> [error |-> message]]

\* lines 277-290: the response that rejects the body, or the trimmed sentence
validate(b) ==
    IF b.parse = "error" THEN Error(500, "Translation failed")
    ELSE IF ~Truthy(b.data) THEN Error(400, "No JSON data provided")
    ELSE IF b.data.t # "dict" THEN Error(500, "Translation failed")
    ELSE IF ~Truthy(DictGet(b.data)) THEN Error(400, "Missing 'sentence' field")
    ELSE IF DictGet(b.data).t # "str" THEN Error(500, "Translation failed")
    ELSE LET s == Strip(DictGet(b.data).v)
         IN  IF s = <<>> THEN Error(400, "Empty sentence provided")
             ELSE IF Len(s) > MaxSentenceLen
                 THEN Error(400, "Sentence too long (max 1000 characters)")
             ELSE [code |-> 0, sentence |-> s]

---------------------------------------------------------------------------
(* translation.py: translate_input *)

DetectCodes == {"fr", "sw", "en"}

\* the output of translate(text, tokenizer, model) for the model named m
Output(m, text) == <<m>> \o text

NoResult ==
    [input |-> NoStr, detected_language |-> None, translation |-> NoStr,
     status |-> <<None>>]

NoLocal ==
    [original |-> NoStr, cleaned |-> NoStr, words |-> <<>>, route |-> None,
     processed |-> NoStr, english |-> NoStr]

\* one capability call: which, on what text, whether it raised, and what it
\* returned (the detector's code as a text of one element)
Call(cap, arg, raised, out) ==
    [cap |-> cap, arg |-> arg, raised |-> raised, out |-> out]

\* lines 59-64
new_result(original) ==
    [input |-> original, detected_language |-> None, translation |-> NoStr,
     status |-> <<"success">>]

\* a variant that gives the word back when it is in neither lexicon
single_word_echo(res, word) ==
    IF word \in DOMAIN french_to_shimarore
    THEN [res EXCEPT !.detected_language = "fr",
                     !.translation = french_to_shimarore[word]]
    ELSE IF word \in DOMAIN shimarore_to_french
    THEN [res EXCEPT !.detected_language = "sw",
                     !.translation = shimarore_to_french[word]]
    ELSE [res EXCEPT !.status = <<"word not found">>, !.translation = word]

\* lines 67-79
single_word(res, word) ==
    IF word \in DOMAIN french_to_shimarore
    THEN [res EXCEPT !.detected_language = "fr",
                     !.translation = french_to_shimarore[word]]
    ELSE IF word \in DOMAIN shimarore_to_french
    THEN [res EXCEPT !.detected_language = "sw",
                     !.translation = shimarore_to_french[word]]
    ELSE [res EXCEPT !.status = <<"word not found">>]

\* lines 82-83
is_french_like(words) ==
    \E i \in 1..Len(words) : words[i] \in DOMAIN french_to_shimarore

is_shimarore_like(words) ==
    \E i \in 1..Len(words) : words[i] \in DOMAIN shimarore_to_french

\* lines 86, 93, 100: the branch of the try block
route_of(words) ==
    IF is_french_like(words) THEN "fr"
    ELSE IF is_shimarore_like(words) THEN "sw"
    ELSE "detect"

\* lines 88, 95, 105, 110
processed_for(lang, original) ==
    IF lang = "fr" THEN replace_french_with_shimarore(original)[1]
    ELSE replace_shimarore_with_french(original)[1]

\* the models of the two hops
first_model(lang) == IF lang = "fr" THEN "fr_en" ELSE "sw_en"

\* a variant that takes the second hop of the other route
second_model_mixed(lang) == IF lang = "fr" THEN "en_fr" ELSE "en_sw"

second_model(lang) == IF lang = "fr" THEN "en_sw" ELSE "en_fr"

\* a variant that catches the exception and leaves the result as it is
on_exception_swallow(res, e) == res

\* lines 117-118
on_exception(res, e) == [res EXCEPT !.status = <<"error: ", e>>]

\* lines 55-83, and the branch of the try block up to its first capability
\* call (lines 86-88, 93-95 or 100)
translate_input_begin ==
    /\ pc = "translate"
    /\ LET original == Lower(Strip(sentence))
           cleaned == clean_text(original)
           words == Split(cleaned)
           res == new_result(original)
           route == route_of(words)
           loc == [NoLocal EXCEPT !.original = original, !.cleaned = cleaned,
                                  !.words = words]
       IN  IF Len(words) = 1
           THEN /\ result' = single_word(res, words[1])
                /\ local' = loc
                /\ pc' = "return"
           ELSE IF route = "detect"
           THEN /\ result' = res
                /\ local' = [loc EXCEPT !.route = route]
                /\ pc' = "detect"
           ELSE /\ result' = [res EXCEPT !.detected_language = route]
                /\ local' = [loc EXCEPT !.route = route,
                                        !.processed = processed_for(route, original)]
                /\ pc' = "hop1"
    /\ UNCHANGED <<body, imported, sentence, calls, response>>
    /\ UNCHANGED <<appVars, lexVars, sub, reader, other>>

\* lines 101-115: detect(cleaned) returns a code or raises
detect_language ==
    /\ pc = "detect"
    /\ \/ \E detected \in DetectCodes :
            /\ calls' = Append(calls, Call("detect", local.cleaned, FALSE, <<detected>>))
            /\ IF detected \in {"fr", "sw"}
               THEN /\ result' = [result EXCEPT !.detected_language = detected]
                    /\ local' = [local EXCEPT
                                   !.route = detected,
                                   !.processed = processed_for(detected, local.original)]
                    /\ pc' = "hop1"
               ELSE /\ result' = [result EXCEPT !.detected_language = detected,
                                                !.status = <<"unsupported language">>]
                    /\ UNCHANGED local
                    /\ pc' = "return"
       \/ /\ calls' = Append(calls, Call("detect", local.cleaned, TRUE, NoStr))
          /\ result' = on_exception(result, "detect failed")
          /\ UNCHANGED local
          /\ pc' = "return"
    /\ UNCHANGED <<body, imported, sentence, response>>
    /\ UNCHANGED <<appVars, lexVars, sub, reader, other>>

\* a variant in which the substituted text is kept in a module global that
\* a concurrent call overwrites
translate_first_hop_shared ==
    /\ pc = "hop1"
    /\ LET processed == IF other.local.processed # NoStr
                        THEN other.local.processed ELSE local.processed
       IN  \/ /\ calls' = Append(calls,
                     Call(first_model(local.route), processed, FALSE,
                          Output(first_model(local.route), processed)))
              /\ local' = [local EXCEPT
                             !.english = Output(first_model(local.route), processed)]
              /\ UNCHANGED result
              /\ pc' = "hop2"
           \/ /\ calls' = Append(calls,
                     Call(first_model(local.route), processed, TRUE, NoStr))
              /\ result' = on_exception(result, "first hop failed")
              /\ UNCHANGED local
              /\ pc' = "return"
    /\ UNCHANGED <<body, imported, sentence, response>>
    /\ UNCHANGED <<appVars, lexVars, sub, reader, other>>

\* a variant that calls the first hop once more after it has raised
translate_first_hop_retry ==
    /\ pc = "hop1"
    /\ \/ /\ calls' = Append(calls,
                Call(first_model(local.route), local.processed, FALSE,
                     Output(first_model(local.route), local.processed)))
          /\ local' = [local EXCEPT
                         !.english = Output(first_model(local.route), local.processed)]
          /\ UNCHANGED result
          /\ pc' = "hop2"
       \/ /\ calls' = Append(calls,
                Call(first_model(local.route), local.processed, TRUE, NoStr))
          /\ result' = on_exception(result, "first hop failed")
          /\ UNCHANGED local
          /\ pc' = IF \E i \in 1..Len(calls) : calls[i].raised
                   THEN "return" ELSE "hop1"
    /\ UNCHANGED <<body, imported, sentence, response>>
    /\ UNCHANGED <<appVars, lexVars, sub, reader, other>>

\* lines 89, 96, 106, 111: the first hop returns or raises
translate_first_hop ==
    /\ pc = "hop1"
    /\ \/ /\ calls' = Append(calls,
                Call(first_model(local.route), local.processed, FALSE,
                     Output(first_model(local.route), local.processed)))
          /\ local' = [local EXCEPT
                         !.english = Output(first_model(local.route), local.processed)]
          /\ UNCHANGED result
          /\ pc' = "hop2"
       \/ /\ calls' = Append(calls,
                Call(first_model(local.route), local.processed, TRUE, NoStr))
          /\ result' = on_exception(result, "first hop failed")
          /\ UNCHANGED local
          /\ pc' = "return"
    /\ UNCHANGED <<body, imported, sentence, response>>
    /\ UNCHANGED <<appVars, lexVars, sub, reader, other>>

\* a variant without the try block: the exception of the second hop reaches
\* the handler of app.py lines 302-304
translate_second_hop_unguarded ==
    /\ pc = "hop2"
    /\ \/ /\ calls' = Append(calls,
                Call(second_model(local.route), local.english, FALSE,
                     Output(second_model(local.route), local.english)))
          /\ result' = [result EXCEPT
                          !.translation = Output(second_model(local.route), local.english)]
          /\ pc' = "return"
          /\ UNCHANGED response
       \/ /\ calls' = Append(calls,
                Call(second_model(local.route), local.english, TRUE, NoStr))
          /\ response' = [code |-> 500, json |-> [error |-> "Translation failed"]]
          /\ pc' = "done"
          /\ UNCHANGED result
    /\ UNCHANGED <<body, imported, sentence, local>>
    /\ UNCHANGED <<appVars, lexVars, sub, reader, other>>

\* lines 90-91, 97-98, 107-108, 112-113: the second hop returns or raises
translate_second_hop ==
    /\ pc = "hop2"
    /\ \/ /\ calls' = Append(calls,
                Call(second_model(local.route), local.english, FALSE,
                     Output(second_model(local.route), local.english)))
          /\ result' = [result EXCEPT
                          !.translation = Output(second_model(local.route), local.english)]
       \/ /\ calls' = Append(calls,
                Call(second_model(local.route), local.english, TRUE, NoStr))
          /\ result' = on_exception(result, "second hop failed")
    /\ pc' = "return"
    /\ UNCHANGED <<response, body, imported, sentence, local>>
    /\ UNCHANGED <<appVars, lexVars, sub, reader, other>>

---------------------------------------------------------------------------
(* app.py: the /translate handler, translate_text *)

\* a POST /translate arrives, its body one of bodies
receive_of(bodies) ==
    /\ pc = "idle"
    /\ \E b \in bodies : body' = b
    /\ pc' = "check"
    /\ UNCHANGED <<imported, sentence, result, local, calls, response>>
    /\ UNCHANGED <<appVars, lexVars, sub, reader, other>>

receive == receive_of(Bodies)

\* a variant that does not look at models_ready
check_ready_ungated ==
    /\ pc = "check"
    /\ pc' = "import"
    /\ UNCHANGED <<body, imported, sentence, result, local, calls, response>>
    /\ UNCHANGED <<appVars, lexVars, sub, reader, other>>

\* a variant in which the handler sets the flag itself when it finds the
\* model directory on disk
check_ready_lazy ==
    /\ pc = "check"
    /\ IF ~models_ready /\ ~efs.model_path
       THEN /\ response' =
                 [code |-> 503,
                  json |-> [error |-> IF extraction_error # None
                                      THEN extraction_error
                                      ELSE "Models are still loading",
                            progress |-> download_progress,
                            status |-> "not_ready"]]
            /\ pc' = "done"
            /\ UNCHANGED models_ready
       ELSE /\ UNCHANGED response
            /\ models_ready' = TRUE
            /\ pc' = "import"
    /\ UNCHANGED <<body, imported, sentence, result, local, calls>>
    /\ UNCHANGED <<extraction_error, download_progress, epc, efs>>
    /\ UNCHANGED <<lexVars, sub, reader, other>>

\* lines 264-270
check_ready ==
    /\ pc = "check"
    /\ IF ~models_ready
       THEN /\ response' =
                 [code |-> 503,
                  json |-> [error |-> IF extraction_error # None
                                      THEN extraction_error
                                      ELSE "Models are still loading",
                            progress |-> download_progress,
                            status |-> "not_ready"]]
            /\ pc' = "done"
       ELSE /\ UNCHANGED response
            /\ pc' = "import"
    /\ UNCHANGED <<body, imported, sentence, result, local, calls>>
    /\ UNCHANGED <<appVars, lexVars, sub, reader, other>>

\* translation.py lines 14-16 and 48-51, run by the first import
load_module(datasets) ==
    /\ \E rows \in datasets :
          /\ df' = rows
          /\ french_to_shimarore' = build_french_to_shimarore(rows)
          /\ shimarore_to_french' = build_shimarore_to_french(rows)
    /\ module' = "loaded"

\* line 274, with lines 299-304: the module is in sys.modules, or it is run
\* now and loads or raises
import_translation ==
    /\ pc = "import"
    /\ \/ /\ module = "loaded"
          /\ imported' = "ok"
          /\ pc' = "validate"
          /\ UNCHANGED <<lexVars, response>>
       \/ /\ module = "unloaded"
          /\ load_module(DatasetsOf(Terms, MaxRows))
          /\ imported' = "ok"
          /\ pc' = "validate"
          /\ UNCHANGED response
       \/ /\ module = "unloaded"
          /\ \E e \in {"Translation service unavailable", "Translation failed"} :
                response' = Error(500, e)
          /\ imported' = "raised"
          /\ pc' = "done"
          /\ UNCHANGED lexVars
    /\ UNCHANGED <<body, sentence, result, local, calls>>
    /\ UNCHANGED <<appVars, sub, reader, other>>

\* lines 277-290, with lines 302-304
validate_request ==
    /\ pc = "validate"
    /\ LET v == validate(body)
       IN  IF v.code # 0
           THEN /\ response' = v
                /\ pc' = "done"
                /\ UNCHANGED sentence
           ELSE /\ sentence' = v.sentence
                /\ pc' = "translate"
                /\ UNCHANGED response
    /\ UNCHANGED <<body, imported, result, local, calls>>
    /\ UNCHANGED <<appVars, lexVars, sub, reader, other>>

\* translate_input returns; line 297
return_result ==
    /\ pc = "return"
    /\ response' = [code |-> 200, json |-> result]
    /\ pc' = "done"
    /\ UNCHANGED <<body, imported, sentence, result, local, calls>>
    /\ UNCHANGED <<appVars, lexVars, sub, reader, other>>

\* the response is sent; the handler takes the next request
finish ==
    /\ pc = "done"
    /\ pc' = "idle"
    /\ body' = NoBody
    /\ imported' = "no"
    /\ sentence' = NoStr
    /\ result' = NoResult
    /\ local' = NoLocal
    /\ calls' = <<>>
    /\ response' = NoResponse
    /\ UNCHANGED <<appVars, lexVars, sub, reader, other>>

translate_input ==
    \/ translate_input_begin
    \/ detect_language
    \/ translate_first_hop
    \/ translate_second_hop

translate_text ==
    \/ receive
    \/ check_ready
    \/ import_translation
    \/ validate_request
    \/ translate_input
    \/ return_result
    \/ finish

---------------------------------------------------------------------------
(* app.py: the readers of the three globals, index and status.  Each read   *)
(* of a global is a step of its own: the extraction thread runs between the *)
(* lines of a handler.                                                      *)

\* Python's truth value of extraction_error
IsSet(e) == e # None /\ e # ""

\* the handler's locals before it has read anything
NoReader ==
    [pc |-> "idle", kind |-> None, status |-> None, models_ready |-> FALSE,
     progress |-> 0, error |-> None, model_path_exists |-> FALSE, seen |-> {}]

\* a GET / or a GET /status arrives
reader_receive ==
    /\ reader.pc = "idle"
    /\ \/ reader' = [reader EXCEPT !.kind = "index", !.pc = "i231"]
       \/ reader' = [reader EXCEPT !.kind = "status", !.pc = "s239"]
    /\ UNCHANGED <<appVars, lexVars, reqVars, sub, other>>

\* line 231: "ready" if models_ready, else the read of extraction_error
index_status_ready ==
    /\ reader.pc = "i231"
    /\ reader' = IF models_ready
                 THEN [reader EXCEPT !.status = "ready", !.pc = "i232"]
                 ELSE [reader EXCEPT !.pc = "i231_error"]
    /\ UNCHANGED <<appVars, lexVars, reqVars, sub, other>>

\* line 231: "error" if extraction_error else "initializing"
index_status_error ==
    /\ reader.pc = "i231_error"
    /\ reader' = [reader EXCEPT
                    !.status = IF IsSet(extraction_error) THEN "error"
                               ELSE "initializing",
                    !.pc = "i232"]
    /\ UNCHANGED <<appVars, lexVars, reqVars, sub, other>>

\* line 232
index_models_ready ==
    /\ reader.pc = "i232"
    /\ reader' = [reader EXCEPT !.models_ready = models_ready, !.pc = "i233"]
    /\ UNCHANGED <<appVars, lexVars, reqVars, sub, other>>

\* line 233
index_progress ==
    /\ reader.pc = "i233"
    /\ reader' = [reader EXCEPT !.progress = download_progress, !.pc = "i234"]
    /\ UNCHANGED <<appVars, lexVars, reqVars, sub, other>>

\* line 234, and the response
index_error ==
    /\ reader.pc = "i234"
    /\ reader' = [reader EXCEPT !.error = extraction_error, !.pc = "done"]
    /\ UNCHANGED <<appVars, lexVars, reqVars, sub, other>>

\* lines 227-235
index ==
    \/ index_status_ready
    \/ index_status_error
    \/ index_models_ready
    \/ index_progress
    \/ index_error

\* lines 239-241
status_ready ==
    /\ reader.pc = "s239"
    /\ reader' = IF models_ready
                 THEN [reader EXCEPT !.status = "ready", !.pc = "s255"]
                 ELSE [reader EXCEPT !.pc = "s242"]
    /\ UNCHANGED <<appVars, lexVars, reqVars, sub, other>>

\* lines 242-244
status_error ==
    /\ reader.pc = "s242"
    /\ reader' = IF IsSet(extraction_error)
                 THEN [reader EXCEPT !.status = "error", !.pc = "s255"]
                 ELSE [reader EXCEPT !.pc = "s245"]
    /\ UNCHANGED <<appVars, lexVars, reqVars, sub, other>>

\* lines 245-250
status_progress ==
    /\ reader.pc = "s245"
    /\ reader' = [reader EXCEPT
                    !.status = IF download_progress > 0 THEN "loading"
                               ELSE "initializing",
                    !.pc = "s255"]
    /\ UNCHANGED <<appVars, lexVars, reqVars, sub, other>>

\* line 255
status_read_progress ==
    /\ reader.pc = "s255"
    /\ reader' = [reader EXCEPT !.progress = download_progress, !.pc = "s256"]
    /\ UNCHANGED <<appVars, lexVars, reqVars, sub, other>>

\* line 256
status_read_models_ready ==
    /\ reader.pc = "s256"
    /\ reader' = [reader EXCEPT !.models_ready = models_ready, !.pc = "s257"]
    /\ UNCHANGED <<appVars, lexVars, reqVars, sub, other>>

\* lines 257-258, and the response
status_read_error ==
    /\ reader.pc = "s257"
    /\ reader' = [reader EXCEPT !.error = extraction_error,
                                !.model_path_exists = efs.model_path,
                                !.pc = "done"]
    /\ UNCHANGED <<appVars, lexVars, reqVars, sub, other>>

\* lines 237-259
status ==
    \/ status_ready
    \/ status_error
    \/ status_progress
    \/ status_read_progress
    \/ status_read_models_ready
    \/ status_read_error

\* the response is sent; the states /status has answered so far are kept
reader_finish ==
    /\ reader.pc = "done"
    /\ reader' = [NoReader EXCEPT
                    !.seen = IF reader.kind = "status"
                             THEN reader.seen \cup {reader.status}
                             ELSE reader.seen]
    /\ UNCHANGED <<appVars, lexVars, reqVars, sub, other>>

readers == reader_receive \/ index \/ status \/ reader_finish

---------------------------------------------------------------------------
(* The service *)

NoSub ==
    [n |-> 0, dir |-> None, text |-> NoStr, out1 |-> NoStr, flag1 |-> FALSE,
     out2 |-> NoStr, flag2 |-> FALSE]

NoOther ==
    [pc |-> "idle", sentence |-> NoStr, result |-> NoResult, local |-> NoLocal,
     calls |-> <<>>]

InitApp ==
    /\ models_ready = FALSE
    /\ extraction_error = None
    /\ download_progress = 0
    /\ epc = "begin"
    /\ efs \in [model_path : BOOLEAN, total_known : {FALSE}, chunk : {0},
                file : {0}, error : {None}]

InitRequest ==
    /\ pc = "idle"
    /\ body = NoBody
    /\ imported = "no"
    /\ sentence = NoStr
    /\ result = NoResult
    /\ local = NoLocal
    /\ calls = <<>>
    /\ response = NoResponse

Init ==
    /\ InitApp
    /\ InitRequest
    /\ df = <<>>
    /\ module = "unloaded"
    /\ french_to_shimarore = EmptyDict
    /\ shimarore_to_french = EmptyDict
    /\ sub = NoSub
    /\ reader = NoReader
    /\ other = NoOther

Next == extract_models \/ translate_text

Spec == Init /\ [][Next]_vars

---------------------------------------------------------------------------
(* The lexicons on their own: the dataset is loaded.  The word replacers on *)
(* their own: the dataset is loaded, then a replacer is applied to a text   *)
(* and again to its own output.                                             *)

SubTexts == StringsOf(SentenceChar, 0, MaxSubLen)

replacer(dir, text) ==
    IF dir = "fr" THEN replace_french_with_shimarore(text)
    ELSE replace_shimarore_with_french(text)

\* translation.py lines 14-16
lex_load ==
    /\ module = "unloaded"
    /\ load_module(DatasetsOf(LexTerms, MaxLexRows))
    /\ UNCHANGED <<appVars, reqVars, sub, reader, other>>

substitute_once ==
    /\ module = "loaded"
    /\ sub.n = 0
    /\ \E dir \in {"fr", "sw"}, text \in SubTexts :
          sub' = [sub EXCEPT !.n = 1, !.dir = dir, !.text = text,
                             !.out1 = replacer(dir, text)[1],
                             !.flag1 = replacer(dir, text)[2]]
    /\ UNCHANGED <<appVars, lexVars, reqVars, reader, other>>

substitute_again ==
    /\ sub.n = 1
    /\ sub' = [sub EXCEPT !.n = 2,
                          !.out2 = replacer(sub.dir, sub.out1)[1],
                          !.flag2 = replacer(sub.dir, sub.out1)[2]]
    /\ UNCHANGED <<appVars, lexVars, reqVars, reader, other>>

\* translation.py lines 14-16
sub_load ==
    /\ module = "unloaded"
    /\ load_module(DatasetsOf(SubTerms, MaxSubRows))
    /\ UNCHANGED <<appVars, reqVars, sub, reader, other>>

\* the bodies of the requests made while the service starts: no sentence,
\* one word, two words
FewBodies ==
    {[parse |-> "ok", data |-> JDict(Absent, 0)],
     [parse |-> "ok", data |-> JDict(JStr(<<"a">>), 0)],
     [parse |-> "ok", data |-> JDict(JStr(<<"a", " ", "a">>), 0)]}

\* the service with its three handlers: the extraction thread, a handler of
\* / and /status, a handler of /translate
translate_text_few ==
    \/ receive_of(FewBodies)
    \/ check_ready
    \/ import_translation
    \/ validate_request
    \/ translate_input
    \/ return_result
    \/ finish

NextApp == extract_models \/ readers \/ translate_text_few

SpecApp == Init /\ [][NextApp]_vars

\* threading.Thread(target=extract_models).start(): the thread keeps running
SpecAppFair == SpecApp /\ WF_vars(extract_models)

\* translate_input as a relation on the frame of one call: the frames that
\* follow the frame r (its position, argument, result, locals and calls)
translate_input_steps(r) ==
    IF r.pc = "translate"
    THEN LET original == Lower(Strip(r.sentence))
             cleaned == clean_text(original)
             words == Split(cleaned)
             res == new_result(original)
             route == route_of(words)
             loc == [NoLocal EXCEPT !.original = original, !.cleaned = cleaned,
                                    !.words = words]
         IN  IF Len(words) = 1
             THEN {[r EXCEPT !.result = single_word(res, words[1]),
                             !.local = loc, !.pc = "return"]}
             ELSE IF route = "detect"
             THEN {[r EXCEPT !.result = res,
                             !.local = [loc EXCEPT !.route = route],
                             !.pc = "detect"]}
             ELSE {[r EXCEPT
                      !.result = [res EXCEPT !.detected_language = route],
                      !.local = [loc EXCEPT
                                   !.route = route,
                                   !.processed = processed_for(route, original)],
                      !.pc = "hop1"]}
    ELSE IF r.pc = "detect"
    THEN {[r EXCEPT
             !.calls = Append(@, Call("detect", r.local.cleaned, FALSE, <<detected>>)),
             !.result = [@ EXCEPT !.detected_language = detected],
             !.local = [@ EXCEPT
                          !.route = detected,
                          !.processed = processed_for(detected, r.local.original)],
             !.pc = "hop1"] : detected \in {"fr", "sw"}}
         \cup
         {[r EXCEPT
             !.calls = Append(@, Call("detect", r.local.cleaned, FALSE, <<detected>>)),
             !.result = [@ EXCEPT !.detected_language = detected,
                                  !.status = <<"unsupported language">>],
             !.pc = "return"] : detected \in DetectCodes \ {"fr", "sw"}}
         \cup
         {[r EXCEPT
             !.calls = Append(@, Call("detect", r.local.cleaned, TRUE, NoStr)),
             !.result = on_exception(@, "detect failed"),
             !.pc = "return"]}
    ELSE IF r.pc = "hop1"
    THEN LET m == first_model(r.local.route)
         IN  {[r EXCEPT
                 !.calls = Append(@, Call(m, r.local.processed, FALSE,
                                          Output(m, r.local.processed))),
                 !.local = [@ EXCEPT !.english = Output(m, r.local.processed)],
                 !.pc = "hop2"],
              [r EXCEPT
                 !.calls = Append(@, Call(m, r.local.processed, TRUE, NoStr)),
                 !.result = on_exception(@, "first hop failed"),
                 !.pc = "return"]}
    ELSE IF r.pc = "hop2"
    THEN LET m == second_model(r.local.route)
         IN  {[r EXCEPT
                 !.calls = Append(@, Call(m, r.local.english, FALSE,
                                          Output(m, r.local.english))),
                 !.result = [@ EXCEPT !.translation = Output(m, r.local.english)],
                 !.pc = "return"],
              [r EXCEPT
                 !.calls = Append(@, Call(m, r.local.english, TRUE, NoStr)),
                 !.result = on_exception(@, "second hop failed"),
                 !.pc = "return"]}
    ELSE {}

\* a step of the second, concurrent call of translate_input
other_translate_input ==
    /\ \E r \in translate_input_steps(other) : other' = r
    /\ UNCHANGED <<appVars, lexVars, reqVars, sub, reader>>

\* the sentences and the dataset of two concurrent requests
PairChar == {"a", "'", " "}
PairSentences == {s \in StringsOf(PairChar, 1, MaxPairLen) : Strip(s) = s}
PairTerms == {<<"a">>, <<"b">>}

\* the frame of a call of translate_input(s) that is about to start
StartOf(s) == [NoOther EXCEPT !.pc = "translate", !.sentence = s]

\* the service is ready, the translation module is loaded, and two handler
\* threads (threaded=True) have each validated a request and are about to
\* call translate_input
InitPair ==
    /\ models_ready = TRUE
    /\ extraction_error = None
    /\ download_progress = 100
    /\ epc = "done"
    /\ efs = [model_path |-> TRUE, total_known |-> FALSE, chunk |-> 0,
              file |-> 0, error |-> None]
    /\ df \in DatasetsOf(PairTerms, MaxPairRows)
    /\ module = "loaded"
    /\ french_to_shimarore = build_french_to_shimarore(df)
    /\ shimarore_to_french = build_shimarore_to_french(df)
    /\ pc = "translate"
    /\ sentence \in PairSentences
    /\ body = [parse |-> "ok", data |-> JDict(JStr(sentence), 0)]
    /\ imported = "ok"
    /\ result = NoResult
    /\ local = NoLocal
    /\ calls = <<>>
    /\ response = NoResponse
    /\ sub = NoSub
    /\ reader = NoReader
    /\ other \in {StartOf(s) : s \in PairSentences}

NextPair == translate_input \/ other_translate_input

SpecPair == InitPair /\ [][NextPair]_vars

NextLex == lex_load

SpecLex == Init /\ [][NextLex]_vars

NextSub == sub_load \/ substitute_once \/ substitute_again

SpecSub == Init /\ [][NextSub]_vars

---------------------------------------------------------------------------
(* Claims *)

\* the request text as translate_input takes it: trimmed, lower-cased
Trimmed == Lower(Strip(sentence))

\* its whitespace-delimited tokens
Tokens == Split(Trimmed)

SomeToken(dict) == \E i \in 1..Len(Tokens) : Tokens[i] \in DOMAIN dict

\* translate_input has returned its result
Returned == pc = "return"

SomeCallRaised == \E i \in 1..Len(calls) : calls[i].raised

FourFields == {"input", "detected_language", "translation", "status"}

\* C1 as stated: a single token that is a key of the forward lexicon gets the
\* forward value as its translation, "fr" and "success".
C1_ForwardLookup_AsClaimed ==
    (Returned /\ Len(Tokens) = 1 /\ Tokens[1] \in DOMAIN french_to_shimarore) =>
        /\ result.translation = french_to_shimarore[Tokens[1]]
        /\ result.detected_language = "fr"
        /\ result.status = <<"success">>

\* C2 as stated: an input of two or more tokens, one a key of the forward
\* lexicon and one a key of the reverse lexicon, is detected as "fr" and no
\* capability is called for it but the fr->en and en->sw translators, the
\* first of them on the forward substitution of the text: the vernacular
\* route is not taken.
C2_TieBreak_AsClaimed ==
    (Returned /\ Len(Tokens) >= 2 /\ SomeToken(french_to_shimarore)
        /\ SomeToken(shimarore_to_french)) =>
        /\ result.detected_language = "fr"
        /\ \A i \in 1..Len(calls) : calls[i].cap \in {"fr_en", "en_sw"}
        /\ Len(calls) >= 1 =>
              /\ calls[1].cap = "fr_en"
              /\ calls[1].arg = replace_french_with_shimarore(Trimmed)[1]

\* C3: when a capability (the detector, the first hop, the second hop) has
\* raised, translate_input returns a result whose status is "error: " and
\* the message and whose translation is None, and the caller receives that
\* result with HTTP 200.
C3_ErrorCaptured ==
    (pc \in {"return", "done"} /\ SomeCallRaised) =>
        /\ Len(result.status) = 2
        /\ result.status[1] = "error: "
        /\ result.translation = NoStr
        /\ (pc = "done" => response = [code |-> 200, json |-> result])

\* C3 witness: the first hop returned, the second raised, and the response
\* has been built.
C3_Witness ==
    /\ pc = "done"
    /\ Len(calls) = 2
    /\ ~calls[1].raised
    /\ calls[2].raised
    /\ local.english = calls[1].out
    /\ response.code = 200

\* C4 as stated: a single token that is a key of neither lexicon gets
\* "word not found", no translation and no detected language.
C4_WordNotFound_AsClaimed ==
    (Returned /\ Len(Tokens) = 1
        /\ Tokens[1] \notin DOMAIN french_to_shimarore
        /\ Tokens[1] \notin DOMAIN shimarore_to_french) =>
        /\ result.status = <<"word not found">>
        /\ result.translation = NoStr
        /\ result.detected_language = None

\* the detector was asked and returned one of codes, or raised
DetectorSaid(codes) ==
    \E i \in 1..Len(calls) :
        calls[i].cap = "detect" /\ (calls[i].raised \/ calls[i].out[1] \in codes)

\* C5 as stated: for an input of two or more tokens none of which is a key of
\* either lexicon, unless the detector answers "fr" or "sw" (or raises), the
\* result is "unsupported language" with no translation and the detector's
\* code as the detected language.
C5_Unsupported_AsClaimed ==
    (Returned /\ Len(Tokens) >= 2 /\ ~SomeToken(french_to_shimarore)
        /\ ~SomeToken(shimarore_to_french) /\ ~DetectorSaid({"fr", "sw"})) =>
        /\ result.status = <<"unsupported language">>
        /\ result.translation = NoStr
        /\ Len(calls) = 1
        /\ calls[1].cap = "detect"
        /\ result.detected_language = calls[1].out[1]

\* the request passed the readiness check
PassedReady == pc = "done" /\ response.code # 503

C7_NotReady503 ==
    [][(pc = "check" /\ ~models_ready /\ pc' # "check") =>
            /\ pc' = "done"
            /\ response'.code = 503
            /\ imported' = "no"
            /\ calls' = <<>>
            /\ result' = NoResult
            /\ UNCHANGED lexVars]_vars

\* C7 witness: a request with a valid sentence has been answered 503.
C7_Witness ==
    /\ pc = "done"
    /\ response.code = 503
    /\ validate(body).code = 0
    /\ ~models_ready

\* the bodies C8 says are rejected: no body, no sentence member, a sentence
\* that is not a string, is blank, or is longer than the limit once trimmed
ShouldBeRejected(b) ==
    /\ b.parse = "ok"
    /\ \/ b.data.t = "null"
       \/ /\ b.data.t = "dict"
          /\ \/ b.data.sentence = Absent
             \/ b.data.sentence.t # "str"
             \/ Strip(b.data.sentence.v) = <<>>
             \/ Len(Strip(b.data.sentence.v)) > MaxSentenceLen

\* an object whose sentence is a string of 1 to 1000 characters once trimmed
ShouldBeAccepted(b) ==
    /\ b.parse = "ok"
    /\ b.data.t = "dict"
    /\ b.data.sentence # Absent
    /\ b.data.sentence.t = "str"
    /\ Len(Strip(b.data.sentence.v)) \in 1..MaxSentenceLen

\* C8 as stated: when the service is ready, a body that should be rejected
\* is answered 400 without translate_input being called, and one that should
\* be accepted is not answered 400.
C8_Validation_AsClaimed ==
    (PassedReady /\ imported = "ok") =>
        /\ ShouldBeRejected(body) =>
              (response.code = 400 /\ result = NoResult /\ calls = <<>>)
        /\ ShouldBeAccepted(body) => response.code # 400

IsLowerCase(s) == Lower(s) = s

\* the last row of rows whose lower-cased column col is k
LastRow(rows, col, k) ==
    LET idx == {i \in 1..Len(rows) : Lower(rows[i][col]) = k}
    IN  CHOOSE i \in idx : \A j \in idx : j <= i

LastWriteWins(dict, rows, keycol, valcol) ==
    /\ DOMAIN dict = {Lower(rows[i][keycol]) : i \in 1..Len(rows)}
    /\ \A k \in DOMAIN dict :
          /\ dict[k] = Lower(rows[LastRow(rows, keycol, k)][valcol])
          /\ IsLowerCase(k)
          /\ IsLowerCase(dict[k])

\* C9: once the dataset is loaded, every key of the forward lexicon maps to
\* the lower-cased target of the last row whose lower-cased text is that key,
\* every key of the reverse lexicon to the lower-cased text of the last row
\* whose lower-cased target is that key, the keys are exactly the lower-cased
\* terms, and every key and value is lower case.
C9_LastWriteWins ==
    module = "loaded" =>
        /\ LastWriteWins(french_to_shimarore, df, "text", "target")
        /\ LastWriteWins(shimarore_to_french, df, "target", "text")

\* C9 witness: two rows whose texts differ only in letter case and whose
\* targets differ have been loaded, and the later row's target is the value.
C9_Witness ==
    /\ module = "loaded"
    /\ Len(df) = 2
    /\ df[1].text # df[2].text
    /\ Lower(df[1].text) = Lower(df[2].text)
    /\ Lower(df[1].target) # Lower(df[2].target)
    /\ french_to_shimarore[Lower(df[1].text)] = Lower(df[2].target)

DictOf(dir) == IF dir = "fr" THEN french_to_shimarore ELSE shimarore_to_french

\* no replacement value is itself a key
NoValueIsKey(d) == \A k \in DOMAIN d : d[k] \notin DOMAIN d

\* every replacement value is lower case, not empty, the single-space join of
\* its own words, and none of its words is a key
NoValueWordIsKey(d) ==
    \A k \in DOMAIN d :
        /\ d[k] # <<>>
        /\ IsLowerCase(d[k])
        /\ Join(Split(d[k])) = d[k]
        /\ \A i \in 1..Len(Split(d[k])) : Split(d[k])[i] \notin DOMAIN d

\* C10 as stated: when no replacement value is a key, substituting the
\* substituted text gives the same text and reports no replacement.
C10_Idempotent_AsClaimed ==
    (sub.n = 2 /\ NoValueIsKey(DictOf(sub.dir))) =>
        (sub.out2 = sub.out1 /\ sub.flag2 = FALSE)

\* C10 amended: when every replacement value is a non-empty lower-case text
\* that is the single-space join of its words and none of these words is a
\* key, substituting the substituted text gives the same text and reports no
\* replacement.
C10_Idempotent ==
    (sub.n = 2 /\ NoValueWordIsKey(DictOf(sub.dir))) =>
        (sub.out2 = sub.out1 /\ sub.flag2 = FALSE)

\* C10 witness: a word has been replaced by a two-word value under such a
\* dictionary, and the output has been substituted again.
C10_Witness ==
    /\ sub.n = 2
    /\ NoValueWordIsKey(DictOf(sub.dir))
    /\ sub.flag1
    /\ Len(Split(sub.text)) = 1
    /\ Len(Split(sub.out1)) = 2
    /\ sub.out2 = sub.out1

\* the first and the second hop of each route, and the substitution each
\* route starts with
FirstHops == {"fr_en", "sw_en"}
SecondHops == {"en_sw", "en_fr"}
FirstOf(second) == IF second = "en_sw" THEN "fr_en" ELSE "sw_en"
SubstitutedFor(first) ==
    IF first = "fr_en" THEN replace_french_with_shimarore(Trimmed)[1]
    ELSE replace_shimarore_with_french(Trimmed)[1]

\* C11: at every moment of a request, a first hop is called on the
\* substitution of the trimmed, lower-cased text (forward for fr->en, reverse
\* for sw->en); a second hop is called only right after the first hop of its
\* own route has returned, and on that hop's output; no more than one first
\* and one second hop are called; and a returned translation of the pivot
\* path is exactly the output of the second hop, the last call.
C11_PivotOrdering ==
    /\ \A i \in 1..Len(calls) :
          /\ calls[i].cap \in FirstHops =>
                /\ calls[i].arg = SubstitutedFor(calls[i].cap)
                /\ \A j \in 1..Len(calls) :
                      (calls[j].cap \in FirstHops \cup SecondHops /\ j # i) =>
                          (j = i + 1 /\ calls[j].cap \in SecondHops)
          /\ calls[i].cap \in SecondHops =>
                /\ i > 1
                /\ calls[i - 1].cap = FirstOf(calls[i].cap)
                /\ ~calls[i - 1].raised
                /\ calls[i].arg = calls[i - 1].out
    /\ (Returned /\ calls # <<>> /\ result.translation # NoStr) =>
          /\ calls[Len(calls)].cap \in SecondHops
          /\ ~calls[Len(calls)].raised
          /\ result.translation = calls[Len(calls)].out
    /\ (Returned /\ calls # <<>> /\ result.status = <<"success">>) =>
          /\ result.translation # NoStr
          /\ calls[Len(calls)].cap =
                (IF result.detected_language = "fr" THEN "en_sw" ELSE "en_fr")

\* C11 witness: the vernacular route has returned: the reverse substitution
\* changed the text, sw->en was called on it, en->fr on its output, and the
\* translation is the output of en->fr.
C11_Witness ==
    /\ Returned
    /\ Len(calls) = 2
    /\ calls[1].cap = "sw_en"
    /\ calls[1].arg # Trimmed
    /\ calls[1].arg = replace_shimarore_with_french(Trimmed)[1]
    /\ calls[2].cap = "en_fr"
    /\ calls[2].arg = calls[1].out
    /\ result.translation = calls[2].out
    /\ result.detected_language = "sw"

\* translate_input has been entered for the request in hand
Entered == pc \in {"detect", "hop1", "hop2", "return"}

DetectorCalled == \E i \in 1..Len(calls) : calls[i].cap = "detect"
TranslatorCalled ==
    \E i \in 1..Len(calls) : calls[i].cap \in FirstHops \cup SecondHops

\* C12 as stated: a request of a single token invokes no capability; the
\* detector is invoked only when no token is a key of the forward or of the
\* reverse lexicon; a request that ends "unsupported language" has invoked
\* no translator.
C12_OnlyWhenNeeded_AsClaimed ==
    Entered =>
        /\ Len(Tokens) = 1 => calls = <<>>
        /\ DetectorCalled =>
              (~SomeToken(french_to_shimarore) /\ ~SomeToken(shimarore_to_french))
        /\ (Returned /\ result.status = <<"unsupported language">>) =>
              ~TranslatorCalled

\* how many of the calls made so far were made to one of caps
CallsTo(caps) == Cardinality({i \in 1..Len(calls) : calls[i].cap \in caps})

\* C13: within a request the detector is called at most once, each of the
\* four translators at most once and the translators at most twice in all;
\* a call that raised is the last call of the request, and the request has
\* then returned with a status "error: ..."; the step in which a capability
\* raises changes nothing but that request's calls, result and position; and
\* the next request starts with no call and no result.
C13_NoRetries ==
    /\ [](/\ CallsTo({"detect"}) <= 1
          /\ \A m \in FirstHops \cup SecondHops : CallsTo({m}) <= 1
          /\ CallsTo(FirstHops) <= 1
          /\ CallsTo(SecondHops) <= 1
          /\ \A i \in 1..Len(calls) :
                calls[i].raised =>
                    /\ i = Len(calls)
                    /\ pc \in {"return", "done"}
                    /\ result.status[1] = "error: ")
    /\ [][/\ (Len(calls') > Len(calls) /\ calls'[Len(calls')].raised) =>
                /\ pc' = "return"
                /\ UNCHANGED <<appVars, lexVars, sub, reader, other>>
                /\ UNCHANGED <<body, sentence, local, response>>
          /\ (pc # "idle" /\ pc' = "idle") =>
                (calls' = <<>> /\ result' = NoResult /\ local' = NoLocal)]_vars

\* C13 witness: the detector answered "fr", the first hop raised, and the
\* result has been returned with these two calls only.
C13_Witness ==
    /\ pc = "done"
    /\ Len(calls) = 2
    /\ calls[1].cap = "detect"
    /\ calls[1].out = <<"fr">>
    /\ calls[2].cap = "fr_en"
    /\ calls[2].raised
    /\ response.code = 200
    /\ response.json.status[1] = "error: "

\* the substitution as the specification gives it, token by token
RECURSIVE SubstituteTokens(_, _)
SubstituteTokens(toks, d) ==
    IF toks = <<>> THEN <<>>
    ELSE <<IF Head(toks) \in DOMAIN d THEN d[Head(toks)] ELSE Head(toks)>>
         \o SubstituteTokens(Tail(toks), d)

\* the number of tokens of the texts of a sequence, added up
RECURSIVE TokensIn(_)
TokensIn(texts) ==
    IF texts = <<>> THEN 0 ELSE Len(Split(Head(texts))) + TokensIn(Tail(texts))

SubTokens == Split(Lower(sub.text))

SubstituteExactly(d) ==
    /\ sub.out1 = Join(SubstituteTokens(SubTokens, d))
    /\ sub.flag1 = (\E i \in 1..Len(SubTokens) : SubTokens[i] \in DOMAIN d)
    /\ \A i \in 1..Len(SubTokens) :
          SubTokens[i] \notin DOMAIN d =>
              SubstituteTokens(SubTokens, d)[i] = SubTokens[i]

\* C14 as stated: the word replacers compute the token-by-token substitution
\* of the lower-cased text, joined by single spaces; the output has as many
\* tokens as the input; a token that is not a key is left as it is; and
\* anyReplaced is true iff a token was a key.
C14_Substitute_AsClaimed ==
    sub.n >= 1 =>
        /\ SubstituteExactly(DictOf(sub.dir))
        /\ Len(Split(sub.out1)) = Len(SubTokens)

\* C14 amended: the same, but the output has as many tokens as the texts put
\* in place have together (a replaced token counts for the tokens of its
\* value), which is the number of tokens of the input when every value of
\* the dictionary is a single token.
C14_Substitute ==
    sub.n >= 1 =>
        LET d == DictOf(sub.dir)
        IN  /\ SubstituteExactly(d)
            /\ Len(Split(sub.out1)) = TokensIn(SubstituteTokens(SubTokens, d))
            /\ (\A k \in DOMAIN d : Len(Split(d[k])) = 1) =>
                  Len(Split(sub.out1)) = Len(SubTokens)

\* C14 witness: a replacer has been applied to a text of one token with
\* punctuation attached whose bare word is a key: the token is left as it
\* is, lower-cased, and nothing is reported replaced.
C14_Witness ==
    /\ sub.n >= 1
    /\ Len(SubTokens) = 1
    /\ SubTokens[1] \notin DOMAIN DictOf(sub.dir)
    /\ clean_text(SubTokens[1]) \in DOMAIN DictOf(sub.dir)
    /\ sub.text # sub.out1
    /\ sub.out1 = SubTokens[1]
    /\ ~sub.flag1

\* C15: models_ready is written only by the extraction thread, at line 217,
\* from false to true; once true it stays true; extraction_error is written
\* only by the extraction thread, at line 222; and no step of a handler
\* (index, status, translate_text) changes either of them.
C15_SingleWriter ==
    [][/\ models_ready' # models_ready =>
             /\ epc = "set_ready"
             /\ epc' = "set_progress"
             /\ ~models_ready
             /\ models_ready' = TRUE
             /\ UNCHANGED <<reqVars, reader>>
       /\ models_ready => models_ready'
       /\ extraction_error' # extraction_error =>
             /\ epc = "except"
             /\ epc' = "reset_progress"
             /\ UNCHANGED <<reqVars, reader>>
       /\ (reader' # reader \/ reqVars' # reqVars) =>
             UNCHANGED <<models_ready, extraction_error>>]_vars

\* C15 witness: the flag has been set while both handlers were at work: the
\* reader answered "initializing" before and has now read the flag as true,
\* and a /translate request has been answered 200.
C15_Witness ==
    /\ models_ready
    /\ reader.pc = "done"
    /\ reader.models_ready = TRUE
    /\ "initializing" \in reader.seen
    /\ pc = "done"
    /\ response.code = 200

\* C16 as stated: the states /status answers only advance: after a response
\* "loading" no response is "initializing", after "ready" every response is
\* "ready", after "error" every response is "error".
C16_StatusAdvances_AsClaimed ==
    (reader.pc = "done" /\ reader.kind = "status") =>
        /\ "loading" \in reader.seen => reader.status # "initializing"
        /\ "ready" \in reader.seen => reader.status = "ready"
        /\ "error" \in reader.seen => reader.status = "error"

\* the frames in which a call of translate_input that runs alone from the
\* frame r can return
RECURSIVE RunsAlone(_)
RunsAlone(r) ==
    IF r.pc = "return" THEN {r}
    ELSE UNION {RunsAlone(x) : x \in translate_input_steps(r)}

\* the call of translate_input(s) whose capabilities answered as in cs
\* returns res when it runs alone, and nothing else
AloneGives(s, cs, res) ==
    LET runs == {f \in RunsAlone(StartOf(s)) : f.calls = cs}
    IN  runs # {} /\ \A f \in runs : f.result = res

\* C17: under every interleaving of two concurrent calls of translate_input,
\* what each call returns is what the call returns when it runs alone on its
\* own input with the same answers of the capabilities it called; and a step
\* of either call leaves the lexicons, the loaded module, the readiness
\* globals and the other call as they are.
C17_Independent ==
    /\ [](/\ pc = "return" => AloneGives(sentence, calls, result)
          /\ other.pc = "return" =>
                AloneGives(other.sentence, other.calls, other.result))
    /\ [][/\ reqVars' # reqVars => UNCHANGED <<appVars, lexVars, other>>
          /\ other' # other => UNCHANGED <<appVars, lexVars, reqVars>>]_vars

\* C17 witness: two calls on different sentences have both returned, one
\* after two hops on the vernacular route, the other with an error after the
\* detector answered and its first hop raised.
C17_Witness ==
    /\ pc = "return"
    /\ other.pc = "return"
    /\ sentence # other.sentence
    /\ Len(calls) = 2
    /\ calls[1].cap = "sw_en"
    /\ result.translation = calls[2].out
    /\ Len(other.calls) = 2
    /\ other.calls[1].cap = "detect"
    /\ other.calls[2].raised
    /\ other.result.status[1] = "error: "

\* the sentence of the request in hand, as the caller sent it
RequestText == body.data.sentence.v

\* C18: every result translate_input returns has a translation exactly when
\* its status is "success"; its status is "success", "word not found",
\* "unsupported language" or "error: " and a message; and its input is the
\* trimmed, lower-cased sentence of the request.
C18_ResultShape ==
    Returned =>
        /\ (result.translation # NoStr) <=> (result.status = <<"success">>)
        /\ \/ result.status \in {<<"success">>, <<"word not found">>,
                                 <<"unsupported language">>}
           \/ Len(result.status) = 2 /\ result.status[1] = "error: "
        /\ result.input = Lower(Strip(RequestText))

\* C18 witness: a request whose sentence has surrounding whitespace and an
\* upper-case letter has been translated over two hops: the input of the
\* result differs from the sentence sent.
C18_Witness ==
    /\ Returned
    /\ result.status = <<"success">>
    /\ Len(calls) >= 2
    /\ Strip(RequestText) # RequestText
    /\ Lower(RequestText) # RequestText
    /\ result.input # RequestText

\* C19 as stated: a response of / or /status that reports models_ready true
\* reports a progress of 100.
C19_ReadyMeansDone_AsClaimed ==
    (reader.pc = "done" /\ reader.models_ready) => reader.progress = 100

=============================================================================
